---- MODULE Spec2Model ----
(***************************************************************************)
(* FrigidaireClimate (custom_components/frigidaire/climate.py): the        *)
(* polling refresh update(), the read accessors, and the three command     *)
(* methods set_temperature, set_fan_mode, set_hvac_mode, with every remote *)
(* call (client.execute_action / client.get_appliance_details) a blocking  *)
(* step that either returns or raises frigidaire.FrigidaireException.      *)
(*                                                                         *)
(* The snapshot keeps the detail keys the modelled methods read: MODE,     *)
(* TEMPERATURE_REPRESENTATION, TARGET_TEMPERATURE_F, TARGET_TEMPERATURE_C  *)
(* and "connectivityState".                                                *)
(***************************************************************************)
EXTENDS Integers, Sequences, FiniteSets, TLC

VARIABLES
    details,       \* self._details: None or the dict of the last stored poll
    available,     \* self._attr_available
    errorLog,      \* number of _LOGGER.error records written by update()
    polls,         \* number of update() calls made so far
    pc,            \* position of the running command / accessor call
    frame,         \* the running call: its name and its argument
    unit,          \* target_temperature's value of self.temperature_unit
    calls,         \* the execute_action calls of the running command, in order
    result,        \* how the running call ended
    ret,           \* the value an accessor returned
    lastPoll,      \* history: what the most recent successful poll returned
    lastUpdate,    \* history: kind of the last update(), state just before it
    startDetails   \* history: self._details when the running call began

vars == <<details, available, errorLog, polls, pc, frame, unit, calls,
          result, ret, lastPoll, lastUpdate, startDetails>>

-----------------------------------------------------------------------------
(* Bounds *)

\* update() is called at most this many times in a behaviour
MaxPolls == 3

-----------------------------------------------------------------------------
(* Vocabulary *)

None == [none |-> TRUE]

TEMP_FAHRENHEIT == "degF"
TEMP_CELSIUS == "degC"

Unit_FAHRENHEIT == "Unit.FAHRENHEIT"
Unit_CELSIUS == "Unit.CELSIUS"

Mode_OFF == "Mode.OFF"
Mode_COOL == "Mode.COOL"
Mode_FAN == "Mode.FAN"
Mode_ECO == "Mode.ECO"

HVAC_MODE_OFF == "off"

\* dict.get() of a key the dict does not hold
Absent == "<absent>"

FRIGIDAIRE_TO_HA_UNIT ==
    (Unit_FAHRENHEIT :> TEMP_FAHRENHEIT) @@ (Unit_CELSIUS :> TEMP_CELSIUS)

FRIGIDAIRE_TO_HA_MODE ==
    (Mode_OFF :> "off") @@ (Mode_COOL :> "cool") @@
    (Mode_FAN :> "fan_only") @@ (Mode_ECO :> "auto")

HA_TO_FRIGIDAIRE_FAN_MODE ==
    [auto |-> "FanSpeed.AUTO", low |-> "FanSpeed.LOW",
     medium |-> "FanSpeed.MEDIUM", high |-> "FanSpeed.HIGH"]

HA_TO_FRIGIDAIRE_HVAC_MODE ==
    [auto |-> Mode_ECO, fan_only |-> Mode_FAN, cool |-> Mode_COOL,
     off |-> Mode_OFF]

\* what client.get_appliance_details can return for an air conditioner:
\* the same target temperature reported in both units
TargetPairs == { <<60, 16>>, <<72, 22>> }

Details ==
    { [mode |-> m, unit |-> u, target_f |-> t[1], target_c |-> t[2],
       conn |-> c] :
        m \in {Mode_OFF, Mode_COOL, Mode_FAN, Mode_ECO},
        u \in {Unit_FAHRENHEIT, Unit_CELSIUS},
        t \in TargetPairs,
        c \in {"connected", "disconnected", Absent} }

\* tokens the host can pass to set_hvac_mode / set_fan_mode
HvacTokens == {"off", "cool", "auto", "fan_only", "heat", "dry"}
FanTokens == {"auto", "low", "medium", "high", "off", "turbo"}

\* ATTR_TEMPERATURE values the host can pass, in tenths of a degree
\* (720 is 72.0, 725 is 72.5, 215 is 21.5)
TemperatureInputs == {720, 725, 215}

Accessors == {"temperature_unit", "target_temperature", "hvac_mode"}

NoFrame == [op |-> "none"]

-----------------------------------------------------------------------------
(* Pure parts of the methods *)

\* int(temperature), on a value given in tenths: truncation toward zero
IntOf(t) == IF t >= 0 THEN t \div 10 ELSE -((-t) \div 10)

temperature_unit(d) == FRIGIDAIRE_TO_HA_UNIT[d.unit]

TargetFieldAlwaysC(d, u) == d.target_c

\* target_temperature's choice of field once the unit is known
TargetField(d, u) ==
    IF u = TEMP_FAHRENHEIT THEN d.target_f ELSE d.target_c

target_temperature(d) == TargetField(d, temperature_unit(d))

hvac_mode(d) == FRIGIDAIRE_TO_HA_MODE[d.mode]

IsOffRequestNever(m) == FALSE

\* set_hvac_mode: if hvac_mode == HVAC_MODE_OFF
IsOffRequest(m) == m = HVAC_MODE_OFF

KnownHvacMode(m) == m \in DOMAIN HA_TO_FRIGIDAIRE_HVAC_MODE

DeviceIsOffAlways(d) == TRUE

\* set_hvac_mode: if self._details.get(Detail.MODE) == Mode.OFF
DeviceIsOff(d) == d.mode = Mode_OFF

KnownFanModeAny(f) == TRUE

\* set_fan_mode: the guard against unexpected fan modes
KnownFanMode(f) == f \in DOMAIN HA_TO_FRIGIDAIRE_FAN_MODE

ShouldLogErrorAlways(av) == TRUE

\* update: if self.available, on a failed poll
ShouldLogError(av) == av

IsConnectedUnlessDisconnected(d) == d.conn # "disconnected"

\* update: self._details.get("connectivityState") == "connected"
IsConnected(d) == d.conn = "connected"

StoredDetailsMerged(old, fetched) ==
    IF old = None THEN fetched ELSE [old EXCEPT !.mode = fetched.mode,
                                                !.conn = fetched.conn]

\* update: self._details = details
StoredDetails(old, fetched) == fetched

\* frigidaire.Action constructors, as the call execute_action is given
Action(op, arg) == [op |-> op, arg |-> arg, status |-> "pending"]

-----------------------------------------------------------------------------
(* Steps shared by the commands *)

\* self._client.execute_action(self._appliance, action) is entered
Issue(action, at) ==
    /\ calls' = Append(calls, action)
    /\ pc' = at
    /\ result' = "running"

\* the method returns, or an exception leaves it
Finish(r) ==
    /\ pc' = "done"
    /\ result' = r
    /\ calls' = calls

Mark(status) == [calls EXCEPT ![Len(calls)].status = status]

InFlight == pc \in {"power_on", "set_temp", "final"}

\* async_add_entities(..., update_before_add=True): the host calls update()
\* once before it reads or commands the entity
Added == polls > 0

Begin(op, arg) ==
    /\ pc = "idle"
    /\ Added
    /\ frame' = [op |-> op, arg |-> arg]
    /\ startDetails' = details

-----------------------------------------------------------------------------
(* Initial state: FrigidaireClimate.__init__ *)

Init ==
    /\ details = None
    /\ available = TRUE
    /\ errorLog = 0
    /\ polls = 0
    /\ pc = "idle"
    /\ frame = NoFrame
    /\ unit = "none"
    /\ calls = <<>>
    /\ result = "none"
    /\ ret = "none"
    /\ lastPoll = None
    /\ lastUpdate = [kind |-> "none", wasAvailable |-> TRUE, logsBefore |-> 0]
    /\ startDetails = None

-----------------------------------------------------------------------------
(* update() *)

\* get_appliance_details raises frigidaire.FrigidaireException
update_fails ==
    /\ polls < MaxPolls
    /\ polls' = polls + 1
    /\ errorLog' = IF ShouldLogError(available) THEN errorLog + 1 ELSE errorLog
    /\ available' = FALSE
    /\ lastUpdate' = [kind |-> "failed", wasAvailable |-> available,
                      logsBefore |-> errorLog]
    /\ UNCHANGED <<details, lastPoll, pc, frame, unit, calls, result, ret,
                   startDetails>>

\* get_appliance_details returns fetched
update_succeeds(fetched) ==
    /\ polls < MaxPolls
    /\ polls' = polls + 1
    /\ details' = StoredDetails(details, fetched)
    /\ available' = IsConnected(details')
    /\ lastPoll' = fetched
    /\ lastUpdate' = [kind |-> "ok", wasAvailable |-> available,
                      logsBefore |-> errorLog]
    /\ UNCHANGED <<errorLog, pc, frame, unit, calls, result, ret,
                   startDetails>>

update ==
    \/ update_fails
    \/ \E fetched \in Details : update_succeeds(fetched)

-----------------------------------------------------------------------------
(* Read accessors *)

read(accessor) ==
    /\ Begin("read", accessor)
    /\ IF details = None
       THEN Finish("AttributeError") /\ ret' = ret
       ELSE /\ Finish("returned")
            /\ ret' = CASE accessor = "temperature_unit" ->
                               temperature_unit(details)
                        [] accessor = "target_temperature" ->
                               target_temperature(details)
                        [] accessor = "hvac_mode" -> hvac_mode(details)
    /\ UNCHANGED <<details, available, errorLog, polls, unit, lastPoll,
                   lastUpdate>>

-----------------------------------------------------------------------------
(* Commands *)

\* kwargs is <<>> (no ATTR_TEMPERATURE) or [temperature |-> t]
set_temperature(kwargs) ==
    /\ Begin("set_temperature", kwargs)
    /\ IF "temperature" \notin DOMAIN kwargs
       THEN Finish("returned")
       ELSE IF details = None
       THEN Finish("AttributeError")
       ELSE IF temperature_unit(details) = TEMP_FAHRENHEIT
       THEN Issue(Action("set_temperature_f", IntOf(kwargs.temperature)),
                  "final")
       ELSE Issue(Action("set_temperature_c", IntOf(kwargs.temperature)),
                  "final")
    /\ UNCHANGED <<details, available, errorLog, polls, unit, ret, lastPoll,
                   lastUpdate>>

set_fan_mode(fan_mode) ==
    /\ Begin("set_fan_mode", fan_mode)
    /\ IF ~KnownFanMode(fan_mode)
       THEN Finish("returned")
       ELSE IF fan_mode \notin DOMAIN HA_TO_FRIGIDAIRE_FAN_MODE
       THEN Finish("KeyError")
       ELSE Issue(Action("set_fan_speed", HA_TO_FRIGIDAIRE_FAN_MODE[fan_mode]),
                  "final")
    /\ UNCHANGED <<details, available, errorLog, polls, unit, ret, lastPoll,
                   lastUpdate>>

set_hvac_mode(mode) ==
    /\ Begin("set_hvac_mode", mode)
    /\ IF IsOffRequest(mode)
       THEN Issue(Action("set_power", "OFF"), "final")
       ELSE IF ~KnownHvacMode(mode)
       THEN Finish("returned")
       ELSE IF details = None
       THEN Finish("AttributeError")
       ELSE IF DeviceIsOff(details)
       THEN Issue(Action("set_power", "ON"), "power_on")
       ELSE Issue(Action("set_mode", HA_TO_FRIGIDAIRE_HVAC_MODE[mode]),
                  "final")
    /\ UNCHANGED <<details, available, errorLog, polls, unit, ret, lastPoll,
                   lastUpdate>>

\* set_hvac_mode, after power-on: target_temperature evaluates
\* self.temperature_unit
read_unit ==
    /\ pc = "read_unit"
    /\ IF details = None
       THEN Finish("AttributeError") /\ unit' = unit
       ELSE /\ unit' = temperature_unit(details)
            /\ pc' = "read_temp"
            /\ UNCHANGED <<calls, result>>
    /\ UNCHANGED <<details, available, errorLog, polls, frame, ret, lastPoll,
                   lastUpdate, startDetails>>

\* set_hvac_mode, after power-on: target_temperature reads the field and
\* Action.set_temperature(...) goes to execute_action
read_temp ==
    /\ pc = "read_temp"
    /\ IF details = None
       THEN Finish("AttributeError")
       ELSE Issue(Action("set_temperature", TargetField(details, unit)),
                  "set_temp")
    /\ UNCHANGED <<details, available, errorLog, polls, frame, unit, ret,
                   lastPoll, lastUpdate, startDetails>>

\* the execute_action in flight is over, with the given status, and the
\* method goes on
Proceed(status) ==
    /\ InFlight
    /\ CASE pc = "power_on" ->
              /\ calls' = Mark(status)
              /\ pc' = "read_unit"
              /\ result' = result
         [] pc = "set_temp" ->
              /\ calls' = Append(Mark(status),
                     Action("set_mode", HA_TO_FRIGIDAIRE_HVAC_MODE[frame.arg]))
              /\ pc' = "final"
              /\ result' = result
         [] pc = "final" ->
              /\ calls' = Mark(status)
              /\ pc' = "done"
              /\ result' = "returned"
    /\ UNCHANGED <<details, available, errorLog, polls, frame, unit, ret,
                   lastPoll, lastUpdate, startDetails>>

execute_action_returns == Proceed("ok")

execute_action_raises_suppressed == Proceed("failed")

\* execute_action raises: no method catches it
execute_action_raises ==
    /\ InFlight
    /\ calls' = Mark("failed")
    /\ pc' = "done"
    /\ result' = "FrigidaireException"
    /\ UNCHANGED <<details, available, errorLog, polls, frame, unit, ret,
                   lastPoll, lastUpdate, startDetails>>

\* the host has the outcome of the call
Return ==
    /\ pc = "done"
    /\ pc' = "idle"
    /\ frame' = NoFrame
    /\ unit' = "none"
    /\ calls' = <<>>
    /\ result' = "none"
    /\ ret' = "none"
    /\ startDetails' = None
    /\ UNCHANGED <<details, available, errorLog, polls, lastPoll, lastUpdate>>

Command ==
    \/ set_temperature(<<>>)
    \/ \E t \in TemperatureInputs : set_temperature([temperature |-> t])
    \/ \E f \in FanTokens : set_fan_mode(f)
    \/ \E m \in HvacTokens : set_hvac_mode(m)
    \/ \E a \in Accessors : read(a)
    \/ read_unit
    \/ read_temp
    \/ execute_action_returns
    \/ execute_action_raises
    \/ Return

-----------------------------------------------------------------------------
(* Specifications *)

\* the host's contract: update() and the commands of one entity run one
\* after the other
SequentialUpdate == pc = "idle" /\ update

Next == SequentialUpdate \/ Command

Spec == Init /\ [][Next]_vars

\* update() in one executor thread while a command runs in another
InterleavedUpdate == update

NextInterleaved == InterleavedUpdate \/ Command

SpecInterleaved == Init /\ [][NextInterleaved]_vars

-----------------------------------------------------------------------------
(* What the specification says of the code *)

\* the target temperature a snapshot holds, in the snapshot's own unit
SnapshotTarget(d) ==
    IF d.unit = Unit_FAHRENHEIT THEN d.target_f ELSE d.target_c

\* the remote mode a recognized non-off platform mode stands for
RemoteModeOf(m) ==
    CASE m = "auto" -> Mode_ECO
      [] m = "cool" -> Mode_COOL
      [] m = "fan_only" -> Mode_FAN

RemoteFanSpeedOf(f) ==
    CASE f = "auto" -> "FanSpeed.AUTO"
      [] f = "low" -> "FanSpeed.LOW"
      [] f = "medium" -> "FanSpeed.MEDIUM"
      [] f = "high" -> "FanSpeed.HIGH"

NonOffModes == {"auto", "cool", "fan_only"}

Is(call, op, arg) == call.op = op /\ call.arg = arg

TurningOn ==
    /\ frame.op = "set_hvac_mode"
    /\ frame.arg \in NonOffModes
    /\ startDetails # None
    /\ startDetails.mode = Mode_OFF

AlreadyOn ==
    /\ frame.op = "set_hvac_mode"
    /\ frame.arg \in NonOffModes
    /\ startDetails # None
    /\ startDetails.mode # Mode_OFF

\* C1: set_hvac_mode with a recognized non-off mode, begun while the
\* snapshot's mode is off, issues set-power ON, then set-temperature with the
\* snapshot's target temperature, then set-mode with the translated mode, in
\* that order and nothing else; all three when no call fails.
C1_TurnOnIssuesPowerTemperatureMode ==
    TurningOn =>
        /\ Len(calls) <= 3
        /\ Len(calls) >= 1 => Is(calls[1], "set_power", "ON")
        /\ Len(calls) >= 2 =>
               Is(calls[2], "set_temperature", SnapshotTarget(startDetails))
        /\ Len(calls) >= 3 => Is(calls[3], "set_mode", RemoteModeOf(frame.arg))
        /\ (pc = "done" /\ result = "returned") =>
               /\ Len(calls) = 3
               /\ \A i \in 1..3 : calls[i].status = "ok"

C1_Witness ==
    /\ TurningOn
    /\ frame.arg = "cool"
    /\ startDetails.unit = Unit_CELSIUS
    /\ pc = "done"
    /\ result = "returned"
    /\ Len(calls) = 3

\* C2: set_hvac_mode(off) issues exactly one remote call, set-power OFF, and
\* no set-power ON, set-temperature or set-mode, whatever the snapshot is.
C2_OffIssuesOnlyPowerOff ==
    (frame.op = "set_hvac_mode" /\ frame.arg = HVAC_MODE_OFF) =>
        /\ Len(calls) = 1
        /\ Is(calls[1], "set_power", "OFF")
        /\ pc \in {"final", "done"}

C2_Witness ==
    /\ frame.op = "set_hvac_mode"
    /\ frame.arg = HVAC_MODE_OFF
    /\ pc = "done"
    /\ startDetails # None
    /\ startDetails.mode = Mode_COOL
    /\ Len(calls) = 1

\* C3: set_hvac_mode with a recognized non-off mode, begun while the
\* snapshot's mode is not off, issues exactly one remote call, set-mode with
\* the translated mode, and no set-power or set-temperature.
C3_AlreadyOnIssuesOnlySetMode ==
    AlreadyOn =>
        /\ Len(calls) = 1
        /\ Is(calls[1], "set_mode", RemoteModeOf(frame.arg))
        /\ pc \in {"final", "done"}

C3_Witness ==
    /\ AlreadyOn
    /\ frame.arg = "auto"
    /\ startDetails.mode = Mode_FAN
    /\ pc = "done"
    /\ result = "returned"

\* C4: a failed poll leaves available false and writes one error record iff
\* available was true just before it; otherwise it writes none.
C4_FailedPollLogsOncePerTransition ==
    lastUpdate.kind = "failed" =>
        /\ available = FALSE
        /\ errorLog = lastUpdate.logsBefore
                        + (IF lastUpdate.wasAvailable THEN 1 ELSE 0)

\* two failed polls in a row: the second found available false and logged
\* nothing
C4_Witness ==
    /\ polls = 2
    /\ lastUpdate.kind = "failed"
    /\ lastUpdate.wasAvailable = FALSE
    /\ lastUpdate.logsBefore = 1
    /\ errorLog = 1

\* C5: after a successful poll, available is true iff the fetched snapshot's
\* connectivity state is "connected", whatever available was before.
C5_AvailableIffConnected ==
    lastUpdate.kind = "ok" => (available <=> lastPoll.conn = "connected")

C5_Witness ==
    /\ lastUpdate.kind = "ok"
    /\ lastUpdate.wasAvailable = TRUE
    /\ lastPoll.conn = Absent
    /\ available = FALSE

\* C6: the snapshot is what the most recent successful poll returned (None
\* before any); no step of a command changes the snapshot or available, and
\* a failed update() leaves the snapshot as it was.
C6_SnapshotIsLastSuccessfulPoll ==
    /\ [](details = lastPoll)
    /\ [][(pc # "idle" \/ pc' # "idle") =>
              (details' = details /\ available' = available)]_vars
    /\ [][(polls' # polls /\ lastUpdate'.kind = "failed") =>
              details' = details]_vars

C6_Witness ==
    /\ polls = 2
    /\ lastUpdate.kind = "failed"
    /\ details # None
    /\ frame.op = "set_temperature"
    /\ pc = "done"
    /\ Len(calls) = 1

\* C7: set_fan_mode with a token outside {auto, low, medium, high} and
\* set_hvac_mode with a token outside the hvac table return without a remote
\* call and without an error; set_fan_mode with a token of the table issues
\* exactly one set-fan-speed call with the translated speed.
C7_UnknownTokensIssueNothing ==
    /\ (frame.op = "set_fan_mode"
          /\ frame.arg \notin {"auto", "low", "medium", "high"}) =>
           (calls = <<>> /\ result = "returned")
    /\ (frame.op = "set_hvac_mode"
          /\ frame.arg \notin {"auto", "fan_only", "cool", "off"}) =>
           (calls = <<>> /\ result = "returned")
    /\ (frame.op = "set_fan_mode"
          /\ frame.arg \in {"auto", "low", "medium", "high"}) =>
           /\ Len(calls) = 1
           /\ Is(calls[1], "set_fan_speed", RemoteFanSpeedOf(frame.arg))

C7_Witness ==
    /\ frame.op = "set_fan_mode"
    /\ frame.arg = "turbo"
    /\ pc = "done"
    /\ result = "returned"
    /\ calls = <<>>

\* C8: no accessor and no command reads the snapshot while it is None, also
\* when every update() so far has failed.
C8_SnapshotNeverReadWhileNone == result # "AttributeError"

\* C9: a remote call is attempted at most once; when one fails the command
\* ends there with the error and issues no further call.
C9_FailurePropagatesWithoutRetry ==
    /\ \A i \in 1..Len(calls) :
           calls[i].status = "failed" =>
               /\ i = Len(calls)
               /\ pc = "done"
               /\ result = "FrigidaireException"
    /\ \A i, j \in 1..Len(calls) : i # j => calls[i].op # calls[j].op
    /\ result = "FrigidaireException" =>
           (Len(calls) >= 1 /\ calls[Len(calls)].status = "failed")

C9_Witness ==
    /\ TurningOn
    /\ pc = "done"
    /\ result = "FrigidaireException"
    /\ Len(calls) = 2
    /\ calls[1].status = "ok"
    /\ calls[2].op = "set_temperature"

\* C10: with update() interleaved, the temperature set_hvac_mode re-asserts
\* after power-on is the target temperature of the snapshot the command
\* began with.
C10_ReassertsTemperatureOfStartSnapshot ==
    frame.op = "set_hvac_mode" =>
        \A i \in 1..Len(calls) :
            calls[i].op = "set_temperature" =>
                calls[i].arg = SnapshotTarget(startDetails)

====
